---- MODULE Spec2Model ----
(***************************************************************************)
(* dclone-tracker (src/main.rs): the poll / diff / notify loop.            *)
(*                                                                         *)
(* Spec        the program: main, run_once, run (the select! loop).        *)
(* SpecUpdate  Status::update_* called in sequence on one Status.          *)
(* SpecNotify  notify called once, with any arguments.                     *)
(*                                                                         *)
(* The variables marked history are not read by the program: they record   *)
(* what the last tick did, for the properties.                             *)
(***************************************************************************)
EXTENDS Integers, Sequences, FiniteSets, TLC

VARIABLES
    pc,          \* position of main / run / run_once
    oneshot,     \* opts.oneshot
    libnotify,   \* the notification sink: "uninit", "ready", "closed"
    created,     \* whether run has executed `let mut status = Status::default()`
    status,      \* the Status struct of run
    sigint,      \* an interrupt signal is pending on the sigint stream
    sigterm,     \* a terminate signal is pending on the sigterm stream
    timerReady,  \* timer.tick() would complete now
    result,      \* what main returns: "none" (still running), "ok", "err"
    sent,        \* notifications shown by the current (or last) handler
    logged,      \* lines printed by run_once at info level
    before,      \* history: the Status when the current tick began
    resp,        \* history: the decoded response of the current tick
    tick,        \* history: how the current tick ended
    done,        \* history: iterations of the for loop that ran to their end
    lastNew,     \* history: per region, `new` of the last notification shown
    sigAt,       \* history: where the loop was when the first signal arrived,
                 \* or "passed" once select! has taken the timer branch
                 \* with a signal pending
    polls,       \* history: poll cycles begun so far: "none", "one", "many"
    inflight,    \* history: poll cycles begun and not yet ended
    calls        \* SpecUpdate: the calls made so far, with their outcomes

vars == <<pc, oneshot, libnotify, created, status, sigint, sigterm, timerReady,
          result, sent, logged, before, resp, tick, done, lastNew,
          sigAt, polls, inflight, calls>>

----------------------------------------------------------------------------
(* Bounds *)

\* longest response (number of records) the endpoint returns
MaxRecords == 2

\* number of calls SpecUpdate makes on one Status
MaxCalls == 2

(* i32 *)
I32Max == 2147483647
I32Min == -I32Max - 1

(* The wire values of the model.  A progress string is the sequence of its *)
(* characters.                                                             *)
RegionCodes == {"1", "2", "3", "9"}

ProgressStrings == {<<"1">>, <<"+", "5">>, <<"0">>, <<"x">>}

\* a record of an unknown region is never parsed: one progress string, which
\* does not parse, stands for all
Records ==
    { r \in [progress : ProgressStrings, region : RegionCodes] :
        r.region = "9" => r.progress = <<"x">> }

Responses == UNION {[1..n -> Records] : n \in 0..MaxRecords}

\* the values update is exercised on in SpecUpdate
UpdateValues == 0..7

\* the values notify is exercised on in SpecNotify
NotifyValues == (-2..9) \cup {I32Max, I32Min}

\* the Status values SpecUpdate starts from: every region holds every value
\* of 0..6 in one of them
InitialStatuses ==
    { [americas |-> v, europe |-> (v + 1) % 7, asia |-> (v + 2) % 7] :
        v \in 0..6 }

RegionNames == {"Americas", "Europe", "Asia"}

----------------------------------------------------------------------------
(* str::parse::<i32> *)

Digits == {"0", "1", "2", "3", "4", "5", "6", "7", "8", "9"}

DigitVal(c) ==
    CASE c = "0" -> 0 [] c = "1" -> 1 [] c = "2" -> 2 [] c = "3" -> 3
      [] c = "4" -> 4 [] c = "5" -> 5 [] c = "6" -> 6 [] c = "7" -> 7
      [] c = "8" -> 8 [] c = "9" -> 9

RECURSIVE ParseDigits(_, _, _)
\* the digit loop: acc is the value so far, sign is 1 or -1
ParseDigits(s, acc, sign) ==
    IF s = <<>> THEN [ok |-> TRUE, val |-> acc]
    ELSE IF Head(s) \notin Digits THEN [ok |-> FALSE, val |-> 0]
    ELSE LET d == DigitVal(Head(s))
             \* checked_mul(10), then checked_add(d) or checked_sub(d)
             mulOk == acc <= I32Max \div 10 /\ acc >= -(I32Max \div 10)
             addOk == IF sign = 1 THEN acc * 10 <= I32Max - d
                                  ELSE acc * 10 >= I32Min + d
         IN  IF ~mulOk \/ ~addOk
             THEN [ok |-> FALSE, val |-> 0]
             ELSE ParseDigits(Tail(s), acc * 10 + sign * d, sign)

ParseI32(s) ==
    IF s = <<>> THEN [ok |-> FALSE, val |-> 0]
    ELSE IF Head(s) \in {"+", "-"}
         THEN IF Tail(s) = <<>> THEN [ok |-> FALSE, val |-> 0]
              ELSE ParseDigits(Tail(s), 0, IF Head(s) = "-" THEN -1 ELSE 1)
         ELSE ParseDigits(s, 0, 1)

----------------------------------------------------------------------------
(* notify and Status *)

DefaultStatus == [americas |-> 0, europe |-> 0, asia |-> 0]

\* notify with 4 matched by the arm of 5: `2 | 3 => .., 4 | 5 => ..`
notify_4_with_5(region, old, new, showOk) ==
    LET known == new \in 1..6
        title == CASE new = 1 -> "DClone is far away"
                   [] new \in {2, 3} -> "DClone is nearing..."
                   [] new \in {4, 5} -> "DClone is about to walk!"
                   [] new = 6 -> "DClone is walking!"
                   [] OTHER -> ""
        urgency == CASE new = 1 -> "Low"
                     [] new \in {2, 3} -> "Normal"
                     [] new \in {4, 5} -> "Critical"
                     [] new = 6 -> "Critical"
                     [] OTHER -> ""
        msg == IF old = 0
               THEN "New status: " \o ToString(new)
               ELSE "Status changed from " \o ToString(old) \o " to "
                        \o ToString(new)
        notification == [region |-> region, old |-> old, new |-> new,
                         title |-> region \o ": " \o title,
                         body |-> msg, app |-> "annihilus",
                         urgency |-> urgency]
    IN  IF ~known THEN [err |-> "value", shown |-> <<>>]
        ELSE IF ~showOk THEN [err |-> "sink", shown |-> <<>>]
        ELSE [err |-> "none", shown |-> <<notification>>]

\* Outcome of notify: err is "none", "value" (Unknown progress value) or
\* "sink" (notification.show() failed); shown holds the notification the
\* sink displayed, if any.  showOk is whether show() succeeds when reached.
notify(region, old, new, showOk) ==
    LET known == new \in 1..6
        title == CASE new = 1 -> "DClone is far away"
                   [] new \in {2, 3, 4} -> "DClone is nearing..."
                   [] new = 5 -> "DClone is about to walk!"
                   [] new = 6 -> "DClone is walking!"
                   [] OTHER -> ""
        urgency == CASE new = 1 -> "Low"
                     [] new \in {2, 3, 4} -> "Normal"
                     [] new = 5 -> "Critical"
                     [] new = 6 -> "Critical"
                     [] OTHER -> ""
        msg == IF old = 0
               THEN "New status: " \o ToString(new)
               ELSE "Status changed from " \o ToString(old) \o " to "
                        \o ToString(new)
        notification == [region |-> region, old |-> old, new |-> new,
                         title |-> region \o ": " \o title,
                         body |-> msg, app |-> "annihilus",
                         urgency |-> urgency]
    IN  IF ~known THEN [err |-> "value", shown |-> <<>>]
        ELSE IF ~showOk THEN [err |-> "sink", shown |-> <<>>]
        ELSE [err |-> "none", shown |-> <<notification>>]

\* NotifyThenAssign without the `?`: the assignment is made on Err too
NotifyThenAssignAlways(n, st, assigned) ==
    [status |-> assigned, err |-> n.err, shown |-> n.shown]

\* `notify(..)?; self.field = new;`: on Err the `?` returns it before the
\* assignment, on Ok the assignment is made.  n is the outcome of notify.
NotifyThenAssign(n, st, assigned) ==
    IF n.err # "none"
    THEN [status |-> st, err |-> n.err, shown |-> n.shown]
    ELSE [status |-> assigned, err |-> "none", shown |-> n.shown]

\* update_americas with the assignment made before notify is called
update_americas_assign_first(st, new, showOk) ==
    IF new # st.americas
    THEN LET n == notify("Americas", st.americas, new, showOk)
         IN  [status |-> [st EXCEPT !.americas = new], err |-> n.err,
              shown |-> n.shown]
    ELSE [status |-> st, err |-> "none", shown |-> <<>>]

\* update_europe without `if new != self.europe`
update_europe_unguarded(st, new, showOk) ==
    NotifyThenAssign(notify("Europe", st.europe, new, showOk),
                     st, [st EXCEPT !.europe = new])

\* update_asia without `self.asia = new`
update_asia_no_assign(st, new, showOk) ==
    IF new # st.asia
    THEN NotifyThenAssign(notify("Asia", st.asia, new, showOk), st, st)
    ELSE [status |-> st, err |-> "none", shown |-> <<>>]

\* update_americas with the range of the value checked before it is compared
\* with the stored one
update_americas_range_first(st, new, showOk) ==
    IF new \notin 1..6
    THEN [status |-> st, err |-> "value", shown |-> <<>>]
    ELSE IF new # st.americas
    THEN NotifyThenAssign(notify("Americas", st.americas, new, showOk),
                          st, [st EXCEPT !.americas = new])
    ELSE [status |-> st, err |-> "none", shown |-> <<>>]

\* update_europe with `self.europe = new` before notify, which then reads
\* the field as its old value
update_europe_write_first(st, new, showOk) ==
    IF new # st.europe
    THEN NotifyThenAssign(notify("Europe", new, new, showOk),
                          [st EXCEPT !.europe = new],
                          [st EXCEPT !.europe = new])
    ELSE [status |-> st, err |-> "none", shown |-> <<>>]

\* update_asia with the field assigned whether notify returns Ok or Err
update_asia_assign_always(st, new, showOk) ==
    IF new # st.asia
    THEN NotifyThenAssignAlways(notify("Asia", st.asia, new, showOk),
                                st, [st EXCEPT !.asia = new])
    ELSE [status |-> st, err |-> "none", shown |-> <<>>]

\* Outcome of an update: the Status after it, the error, what was shown
update_americas(st, new, showOk) ==
    IF new # st.americas
    THEN NotifyThenAssign(notify("Americas", st.americas, new, showOk),
                          st, [st EXCEPT !.americas = new])
    ELSE [status |-> st, err |-> "none", shown |-> <<>>]

update_europe(st, new, showOk) ==
    IF new # st.europe
    THEN NotifyThenAssign(notify("Europe", st.europe, new, showOk),
                          st, [st EXCEPT !.europe = new])
    ELSE [status |-> st, err |-> "none", shown |-> <<>>]

update_asia(st, new, showOk) ==
    IF new # st.asia
    THEN NotifyThenAssign(notify("Asia", st.asia, new, showOk),
                          st, [st EXCEPT !.asia = new])
    ELSE [status |-> st, err |-> "none", shown |-> <<>>]

----------------------------------------------------------------------------
(* The body of `for progress in response` in run, and the loop itself *)

\* LoopBody with the last arm returning an error instead of warning
LoopBodyUnknownRegionFails(st, progress, showOk) ==
    LET p == ParseI32(progress.progress)
        failed == [status |-> st, err |-> "parse", shown |-> <<>>,
                   warned |-> FALSE]
        updated(u) == [status |-> u.status, err |-> u.err, shown |-> u.shown,
                       warned |-> FALSE]
    IN  CASE progress.region = "1" ->
               IF ~p.ok THEN failed
               ELSE updated(update_americas(st, p.val, showOk))
          [] progress.region = "2" ->
               IF ~p.ok THEN failed
               ELSE updated(update_europe(st, p.val, showOk))
          [] progress.region = "3" ->
               IF ~p.ok THEN failed
               ELSE updated(update_asia(st, p.val, showOk))
          [] OTHER ->
               [status |-> st, err |-> "value", shown |-> <<>>,
                warned |-> TRUE]

\* LoopBody with the arm of "2" calling update_asia
LoopBodyEuropeAsAsia(st, progress, showOk) ==
    LET p == ParseI32(progress.progress)
        failed == [status |-> st, err |-> "parse", shown |-> <<>>,
                   warned |-> FALSE]
        updated(u) == [status |-> u.status, err |-> u.err, shown |-> u.shown,
                       warned |-> FALSE]
    IN  CASE progress.region = "1" ->
               IF ~p.ok THEN failed
               ELSE updated(update_americas(st, p.val, showOk))
          [] progress.region = "2" ->
               IF ~p.ok THEN failed
               ELSE updated(update_asia(st, p.val, showOk))
          [] progress.region = "3" ->
               IF ~p.ok THEN failed
               ELSE updated(update_asia(st, p.val, showOk))
          [] OTHER ->
               [status |-> st, err |-> "none", shown |-> <<>>, warned |-> TRUE]

\* One iteration: err is "none", "parse" (str::parse failed), "value" or
\* "sink"; warned is whether the record was logged as an unexpected region.
LoopBody(st, progress, showOk) ==
    LET p == ParseI32(progress.progress)
        failed == [status |-> st, err |-> "parse", shown |-> <<>>,
                   warned |-> FALSE]
        updated(u) == [status |-> u.status, err |-> u.err, shown |-> u.shown,
                    warned |-> FALSE]
    IN  CASE progress.region = "1" ->
               IF ~p.ok THEN failed ELSE updated(update_americas(st, p.val, showOk))
          [] progress.region = "2" ->
               IF ~p.ok THEN failed ELSE updated(update_europe(st, p.val, showOk))
          [] progress.region = "3" ->
               IF ~p.ok THEN failed ELSE updated(update_asia(st, p.val, showOk))
          [] OTHER ->
               [status |-> st, err |-> "none", shown |-> <<>>, warned |-> TRUE]

\* the state of the for loop after one more iteration with outcome b
Iterated(acc, b) ==
    [status |-> b.status, err |-> b.err, shown |-> acc.shown \o b.shown,
     done |-> acc.done + (IF b.err = "none" THEN 1 ELSE 0),
     warned |-> acc.warned + (IF b.warned THEN 1 ELSE 0)]

RECURSIVE ForRestContinues(_, _, _, _)
\* ForRest with the error of a record kept for the end of the loop instead
\* of returned at once: the records after it are processed too
ForRestContinues(acc, response, i, failAt) ==
    IF i > Len(response) THEN acc
    ELSE ForRestContinues(
             [Iterated(acc, LoopBody(acc.status, response[i], i # failAt))
                 EXCEPT !.err = IF acc.err # "none" THEN acc.err ELSE @],
             response, i + 1, failAt)

RECURSIVE ForRest(_, _, _, _)
\* The for loop from record i on; `?` leaves it at the first error.
ForRest(acc, response, i, failAt) ==
    IF i > Len(response) \/ acc.err # "none" THEN acc
    ELSE ForRest(Iterated(acc, LoopBody(acc.status, response[i], i # failAt)),
                 response, i + 1, failAt)

\* `for progress in response { ... }` on Status st.  failAt is the record at
\* which show() fails if it is reached there (0: show() never fails).  In
\* the outcome, done counts the iterations that ran to their end and warned
\* those that logged an unexpected region code.
ForProgress(st, response, failAt) ==
    ForRest([status |-> st, err |-> "none", shown |-> <<>>, done |-> 0,
             warned |-> 0], response, 1, failAt)

----------------------------------------------------------------------------
(* impl fmt::Display for Progress *)

RECURSIVE Concat(_)
Concat(s) == IF s = <<>> THEN "" ELSE Head(s) \o Concat(Tail(s))

Display(progress) ==
    LET region == CASE progress.region = "1" -> "Americas"
                    [] progress.region = "2" -> "Europe"
                    [] progress.region = "3" -> "Asia"
                    [] OTHER -> "Unknown"
    IN  "Progress for " \o region \o ": " \o Concat(progress.progress)
            \o "/6"

----------------------------------------------------------------------------
(* The program *)

NoLast == [r \in RegionNames |-> <<>>]

\* polls after one more poll cycle has begun
OneMore(p) == IF p = "none" THEN "one" ELSE "many"

\* `new` of the last notification shown per region, after `shown`
RECURSIVE Latest(_, _)
Latest(last, shown) ==
    IF shown = <<>> THEN last
    ELSE Latest([last EXCEPT ![Head(shown).region] = <<Head(shown).new>>],
                Tail(shown))

Init ==
    /\ pc = "main"
    /\ oneshot \in BOOLEAN
    /\ libnotify = "uninit"
    /\ created = FALSE
    /\ status = DefaultStatus
    /\ sigint = FALSE
    /\ sigterm = FALSE
    /\ timerReady = FALSE
    /\ result = "none"
    /\ sent = <<>>
    /\ logged = <<>>
    /\ before = DefaultStatus
    /\ resp = <<>>
    /\ tick = "none"
    /\ done = 0
    /\ lastNew = NoLast
    /\ sigAt = "none"
    /\ polls = "none"
    /\ inflight = 0
    /\ calls = <<>>

\* main: `if opts.oneshot { run_once(opts).await?; ... }`: run_once is
\* entered and its poll begins
MainOneshot ==
    /\ pc = "main"
    /\ oneshot
    /\ pc' = "once_send"
    /\ UNCHANGED <<oneshot, libnotify, created, status, sigint, sigterm,
                   timerReady, result, sent, logged, before, resp, tick,
                   lastNew, calls, done, sigAt>>
    /\ polls' = OneMore(polls)
    /\ inflight' = inflight + 1

\* run_once: build_client() or send() fails, `?` returns the error through
\* main
OnceSendFail ==
    /\ pc = "once_send"
    /\ pc' = "exited"
    /\ result' = "err"
    /\ UNCHANGED <<oneshot, libnotify, created, status, sigint, sigterm,
                   timerReady, sent, logged, before, resp, tick, lastNew,
                   calls, done, sigAt>>
    /\ inflight' = inflight - 1
    /\ UNCHANGED polls

OnceSendOk ==
    /\ pc = "once_send"
    /\ pc' = "once_json"
    /\ UNCHANGED <<oneshot, libnotify, created, status, sigint, sigterm,
                   timerReady, result, sent, logged, before, resp, tick,
                   lastNew, calls, done, sigAt>>
    /\ UNCHANGED <<polls, inflight>>

\* run_once: json() fails, `?` returns the error through main
OnceJsonFail ==
    /\ pc = "once_json"
    /\ pc' = "exited"
    /\ result' = "err"
    /\ UNCHANGED <<oneshot, libnotify, created, status, sigint, sigterm,
                   timerReady, sent, logged, before, resp, tick, lastNew,
                   calls, done, sigAt>>
    /\ inflight' = inflight - 1
    /\ UNCHANGED polls

\* OnceJsonOk with the records put through the for loop of run on a Status
OnceJsonOkNotifies ==
    /\ pc = "once_json"
    /\ \E response \in Responses :
       \E r \in {ForProgress(status, response, 0)} :
          /\ logged' = [i \in 1..Len(response) |-> Display(response[i])]
          /\ status' = r.status
          /\ sent' = r.shown
          /\ lastNew' = Latest(lastNew, r.shown)
    /\ pc' = "exited"
    /\ result' = "ok"
    /\ inflight' = inflight - 1
    /\ UNCHANGED <<oneshot, libnotify, created, sigint, sigterm, timerReady,
                   before, resp, tick, calls, done, sigAt, polls>>

\* run_once: every record is logged; main returns Ok
OnceJsonOk ==
    /\ pc = "once_json"
    /\ \E response \in Responses :
          logged' = [i \in 1..Len(response) |-> Display(response[i])]
    /\ pc' = "exited"
    /\ result' = "ok"
    /\ UNCHANGED <<oneshot, libnotify, created, status, sigint, sigterm,
                   timerReady, sent, before, resp, tick, lastNew, calls, done,
                   sigAt>>
    /\ inflight' = inflight - 1
    /\ UNCHANGED polls

\* InitFail with the error of libnotify::init dropped: main goes on to run
InitFailGoesOn ==
    /\ pc = "main"
    /\ ~oneshot
    /\ pc' = "run"
    /\ UNCHANGED <<oneshot, libnotify, created, status, sigint, sigterm,
                   timerReady, result, sent, logged, before, resp, tick,
                   lastNew, calls, done, sigAt, polls, inflight>>

\* main: libnotify::init fails, `?` returns the error
InitFail ==
    /\ pc = "main"
    /\ ~oneshot
    /\ pc' = "exited"
    /\ result' = "err"
    /\ UNCHANGED <<oneshot, libnotify, created, status, sigint, sigterm,
                   timerReady, sent, logged, before, resp, tick, lastNew,
                   calls, done, sigAt>>
    /\ UNCHANGED <<polls, inflight>>

InitOk ==
    /\ pc = "main"
    /\ ~oneshot
    /\ libnotify' = "ready"
    /\ pc' = "run"
    /\ UNCHANGED <<oneshot, created, status, sigint, sigterm, timerReady,
                   result, sent, logged, before, resp, tick, lastNew, calls,
                   done, sigAt>>
    /\ UNCHANGED <<polls, inflight>>

\* run: build_client() or signal() fails before the loop
RunSetupFail ==
    /\ pc = "run"
    /\ pc' = "uninit"
    /\ result' = "err"
    /\ UNCHANGED <<oneshot, libnotify, created, status, sigint, sigterm,
                   timerReady, sent, logged, before, resp, tick, lastNew,
                   calls, done, sigAt>>
    /\ UNCHANGED <<polls, inflight>>

\* run up to the loop: the first tick of an interval completes at once
RunSetupOk ==
    /\ pc = "run"
    /\ created' = TRUE
    /\ status' = DefaultStatus
    /\ timerReady' = TRUE
    /\ pc' = "select"
    /\ UNCHANGED <<oneshot, libnotify, sigint, sigterm, result, sent, logged,
                   before, resp, tick, lastNew, calls, done, sigAt>>
    /\ UNCHANGED <<polls, inflight>>

Looping == pc \in {"select", "send", "json"}

\* where the loop is: parked in select! with no branch ready, in select!
\* with the timer ready, or in the timer branch with a poll in flight
Where ==
    IF pc = "select" THEN (IF timerReady THEN "ready" ELSE "parked")
    ELSE "inflight"

\* the environment: signals arrive, the interval elapses
DeliverSigint ==
    /\ Looping
    /\ ~sigint
    /\ sigint' = TRUE
    /\ sigAt' = IF sigint \/ sigterm THEN sigAt ELSE Where
    /\ UNCHANGED <<pc, oneshot, libnotify, created, status, sigterm,
                   timerReady, result, sent, logged, before, resp, tick,
                   lastNew, calls, done>>
    /\ UNCHANGED <<polls, inflight>>

DeliverSigterm ==
    /\ Looping
    /\ ~sigterm
    /\ sigterm' = TRUE
    /\ sigAt' = IF sigint \/ sigterm THEN sigAt ELSE Where
    /\ UNCHANGED <<pc, oneshot, libnotify, created, status, sigint,
                   timerReady, result, sent, logged, before, resp, tick,
                   lastNew, calls, done>>
    /\ UNCHANGED <<polls, inflight>>

TimerFire ==
    /\ Looping
    /\ ~timerReady
    /\ timerReady' = TRUE
    /\ UNCHANGED <<pc, oneshot, libnotify, created, status, sigint, sigterm,
                   result, sent, logged, before, resp, tick, lastNew, calls,
                   done, sigAt>>
    /\ UNCHANGED <<polls, inflight>>

\* run returns: timer, sigint and sigterm go out of scope
Dropped ==
    /\ sigint' = FALSE
    /\ sigterm' = FALSE
    /\ timerReady' = FALSE
    /\ sigAt' = "none"

\* select!: a branch whose future is ready is taken; with several ready the
\* macro picks one of them at random
SelectSigint ==
    /\ pc = "select"
    /\ sigint
    /\ pc' = "uninit"
    /\ result' = "ok"
    /\ Dropped
    /\ UNCHANGED <<oneshot, libnotify, created, status, sent, logged, before,
                   resp, tick, lastNew, calls, done>>
    /\ UNCHANGED <<polls, inflight>>

SelectSigterm ==
    /\ pc = "select"
    /\ sigterm
    /\ pc' = "uninit"
    /\ result' = "ok"
    /\ Dropped
    /\ UNCHANGED <<oneshot, libnotify, created, status, sent, logged, before,
                   resp, tick, lastNew, calls, done>>
    /\ UNCHANGED <<polls, inflight>>

\* SelectTick with the handler spawned as a task of its own: the timer
\* branch is taken also while a poll is in flight
SelectTickOverlapping ==
    /\ Looping
    /\ inflight < 2
    /\ timerReady
    /\ timerReady' = FALSE
    /\ pc' = "send"
    /\ before' = status
    /\ resp' = <<>>
    /\ sent' = <<>>
    /\ tick' = "none"
    /\ done' = 0
    /\ sigAt' = IF sigint \/ sigterm THEN "passed" ELSE sigAt
    /\ polls' = OneMore(polls)
    /\ inflight' = inflight + 1
    /\ UNCHANGED <<oneshot, libnotify, created, status, sigint, sigterm,
                   result, logged, lastNew, calls>>

\* the timer branch up to `send().await`
SelectTick ==
    /\ pc = "select"
    /\ timerReady
    /\ timerReady' = FALSE
    /\ pc' = "send"
    /\ before' = status
    /\ resp' = <<>>
    /\ sent' = <<>>
    /\ tick' = "none"
    /\ done' = 0
    /\ sigAt' = IF sigint \/ sigterm THEN "passed" ELSE sigAt
    /\ UNCHANGED <<oneshot, libnotify, created, status, sigint, sigterm,
                   result, logged, lastNew, calls>>
    /\ polls' = OneMore(polls)
    /\ inflight' = inflight + 1

\* SendFail with the error returned from main by `run(opts).await?`
SendFailSkipsUninit ==
    /\ pc = "send"
    /\ tick' = "send_err"
    /\ pc' = "exited"
    /\ result' = "err"
    /\ Dropped
    /\ inflight' = inflight - 1
    /\ UNCHANGED <<oneshot, libnotify, created, status, sent, logged, before,
                   resp, lastNew, calls, done, polls>>

\* `send().await?` fails
SendFail ==
    /\ pc = "send"
    /\ tick' = "send_err"
    /\ pc' = "uninit"
    /\ result' = "err"
    /\ Dropped
    /\ UNCHANGED <<oneshot, libnotify, created, status, sent, logged, before,
                   resp, lastNew, calls, done>>
    /\ inflight' = inflight - 1
    /\ UNCHANGED polls

SendOk ==
    /\ pc = "send"
    /\ pc' = "json"
    /\ UNCHANGED <<oneshot, libnotify, created, status, sigint, sigterm,
                   timerReady, result, sent, logged, before, resp, tick,
                   lastNew, calls, done, sigAt>>
    /\ UNCHANGED <<polls, inflight>>

\* JsonFail with the Status reset when the response does not decode
JsonFailResetsStatus ==
    /\ pc = "json"
    /\ tick' = "json_err"
    /\ pc' = "select"
    /\ status' = DefaultStatus
    /\ UNCHANGED <<oneshot, libnotify, created, sigint, sigterm, timerReady,
                   result, sent, logged, before, resp, lastNew, calls, done,
                   sigAt>>
    /\ inflight' = inflight - 1
    /\ UNCHANGED polls

\* `.json::<Vec<Progress>>().await` fails: log::error!, continue
JsonFail ==
    /\ pc = "json"
    /\ tick' = "json_err"
    /\ pc' = "select"
    /\ UNCHANGED <<oneshot, libnotify, created, status, sigint, sigterm,
                   timerReady, result, sent, logged, before, resp, lastNew,
                   calls, done, sigAt>>
    /\ inflight' = inflight - 1
    /\ UNCHANGED polls

\* the records at which show() can be reached: of a known region, with a
\* value that notify accepts.  At any other record a failing show() is the
\* same as one that does not fail.
Showable ==
    { progress \in Records :
        /\ progress.region \in {"1", "2", "3"}
        /\ ParseI32(progress.progress).ok
        /\ ParseI32(progress.progress).val \in 1..6 }

MayShow(response) == { i \in DOMAIN response : response[i] \in Showable }

\* the response decodes: the for loop over its records, to its end or to the
\* first `?` that returns from run
JsonOk ==
    /\ pc = "json"
    /\ \E response \in Responses :
       \E failAt \in {0} \cup MayShow(response) :
       \E r \in {ForProgress(status, response, failAt)} :
              /\ resp' = response
              /\ status' = r.status
              /\ sent' = r.shown
              /\ done' = r.done
              /\ lastNew' = Latest(lastNew, r.shown)
              /\ tick' = IF r.err = "none" THEN "ok" ELSE r.err
              /\ IF r.err = "none"
                 THEN /\ pc' = "select"
                      /\ UNCHANGED <<result, sigint, sigterm, timerReady,
                                     sigAt>>
                 ELSE /\ pc' = "uninit"
                      /\ result' = "err"
                      /\ Dropped
    /\ UNCHANGED <<oneshot, libnotify, created, logged, before, calls>>
    /\ inflight' = inflight - 1
    /\ UNCHANGED polls

\* main: libnotify::uninit(); result
Uninit ==
    /\ pc = "uninit"
    /\ libnotify' = "closed"
    /\ pc' = "exited"
    /\ UNCHANGED <<oneshot, created, status, sigint, sigterm, timerReady,
                   result, sent, logged, before, resp, tick, lastNew, calls,
                   done, sigAt>>
    /\ UNCHANGED <<polls, inflight>>

Next ==
    \/ MainOneshot
    \/ OnceSendFail
    \/ OnceSendOk
    \/ OnceJsonFail
    \/ OnceJsonOk
    \/ InitFail
    \/ InitOk
    \/ RunSetupFail
    \/ RunSetupOk
    \/ DeliverSigint
    \/ DeliverSigterm
    \/ TimerFire
    \/ SelectSigint
    \/ SelectSigterm
    \/ SelectTick
    \/ SendFail
    \/ SendOk
    \/ JsonFail
    \/ JsonOk
    \/ Uninit

Spec == Init /\ [][Next]_vars

----------------------------------------------------------------------------
(* SpecUpdate: update_americas, update_europe and update_asia called on one *)
(* Status, up to MaxCalls times, with any value and any outcome of show().  *)
(* calls records each call: the region, the value, the Status before it     *)
(* (was), and its outcome.                                                  *)

Update(region, st, new, showOk) ==
    CASE region = "Americas" -> update_americas(st, new, showOk)
      [] region = "Europe" -> update_europe(st, new, showOk)
      [] region = "Asia" -> update_asia(st, new, showOk)

Field(st, region) ==
    CASE region = "Americas" -> st.americas
      [] region = "Europe" -> st.europe
      [] region = "Asia" -> st.asia

\* the rest of the state while update or notify is called: that of run in
\* the timer branch, where the calls are made
Idle ==
    /\ pc = "json"
    /\ oneshot = FALSE
    /\ libnotify = "ready"
    /\ created = TRUE
    /\ sigint = FALSE
    /\ sigterm = FALSE
    /\ timerReady = FALSE
    /\ result = "none"
    /\ sent = <<>>
    /\ logged = <<>>
    /\ before = DefaultStatus
    /\ resp = <<>>
    /\ tick = "none"
    /\ done = 0
    /\ lastNew = NoLast
    /\ sigAt = "none"
    /\ polls = "none"
    /\ inflight = 0

UInit ==
    /\ Idle
    /\ status \in InitialStatuses
    /\ calls = <<>>

CallUpdate ==
    /\ Len(calls) < MaxCalls
    /\ \E region \in RegionNames, new \in UpdateValues, showOk \in BOOLEAN :
          \E u \in {Update(region, status, new, showOk)} :
              /\ status' = u.status
              /\ calls' = Append(calls, [region |-> region, new |-> new,
                                         showOk |-> showOk, was |-> status,
                                         err |-> u.err, shown |-> u.shown])
    /\ UNCHANGED <<pc, oneshot, libnotify, created, sigint, sigterm,
                   timerReady, result, sent, logged, before, resp, tick,
                   lastNew, done, sigAt>>
    /\ UNCHANGED <<polls, inflight>>

UNext == CallUpdate

SpecUpdate == UInit /\ [][UNext]_vars

(* SpecNotify: one call of notify, with any arguments *)

NInit ==
    /\ Idle
    /\ status = DefaultStatus
    /\ calls = <<>>

CallNotify ==
    /\ calls = <<>>
    /\ \E region \in RegionNames, old \in 0..6, new \in NotifyValues,
          showOk \in BOOLEAN :
          \E n \in {notify(region, old, new, showOk)} :
              calls' = <<[region |-> region, old |-> old, new |-> new,
                          showOk |-> showOk, err |-> n.err,
                          shown |-> n.shown]>>
    /\ UNCHANGED <<pc, oneshot, libnotify, created, status, sigint, sigterm,
                   timerReady, result, sent, logged, before, resp, tick,
                   lastNew, done, sigAt>>
    /\ UNCHANGED <<polls, inflight>>

NNext == CallNotify

SpecNotify == NInit /\ [][NNext]_vars

----------------------------------------------------------------------------
(* Properties of the loop (Spec) *)

Known(progress) == progress.region \in {"1", "2", "3"}

\* s without its i-th element
Without(s, i) == [j \in 1..(Len(s) - 1) |-> IF j < i THEN s[j] ELSE s[j + 1]]

\* C1: a tick whose request fails to send, or whose response fails to
\* decode, leaves the loop running: run has not returned and the loop is
\* back in select!, where a later tick polls again.
C1_TransientFailureKeepsLoopRunning ==
    tick \in {"send_err", "json_err"} => pc = "select" /\ result = "none"

\* C2: a tick that meets a record of a known region whose progress string is
\* no integer, or whose value the notifier rejects, leaves the loop running:
\* run has not returned and the loop is back in select!.
C2_BadRecordKeepsLoopRunning ==
    tick \in {"parse", "value"} => pc = "select" /\ result = "none"

\* C3: a tick that ends with a failed send or a failed decode leaves the
\* three fields of the Status as they were when the tick began and shows no
\* notification.
C3_TransientFailureLeavesStore ==
    tick \in {"send_err", "json_err"} =>
        /\ status = before
        /\ sent = <<>>
        /\ resp = <<>>

C3_Witness ==
    /\ tick \in {"send_err", "json_err"}
    /\ before.americas # 0
    /\ before.asia # 0

\* C4: a record whose region code is none of "1", "2", "3" that the for loop
\* reaches ends its iteration without an error, so the loop goes on to the
\* records after it; and the tick ends as it ends on the response without
\* that record: the same Status, the same notifications, the same error.
C4_UnknownRegionSkipped ==
    tick \notin {"none", "send_err", "json_err"} =>
        /\ tick = "ok" => done = Len(resp)
        /\ \A i \in DOMAIN resp :
              ~Known(resp[i]) /\ i <= done + 1 =>
                  /\ i <= done
                  /\ \E r \in {ForProgress(before, Without(resp, i),
                                            IF tick = "sink" THEN done
                                                             ELSE 0)} :
                        /\ r.status = status
                        /\ r.shown = sent
                        /\ r.err = (IF tick = "ok" THEN "none" ELSE tick)
                        /\ r.done = done - 1

C4_Witness ==
    /\ tick = "ok"
    /\ Len(resp) >= 2
    /\ resp[1] = [region |-> "9", progress |-> <<"x">>]
    /\ Known(resp[2])
    /\ Len(sent) = 1
    /\ status # before

\* C8: once run has created the Status, each field is `new` of the last
\* notification the sink showed for its region, and is 0 exactly when the
\* sink has shown none for it; so each field is in 0..6, and no step takes a
\* field from a value other than 0 back to 0.
C8_StoreHoldsLastNotified ==
    /\ [](created =>
            \A region \in RegionNames :
                /\ Field(status, region) \in 0..6
                /\ Field(status, region) = 0 <=> lastNew[region] = <<>>
                /\ lastNew[region] # <<>> =>
                       Field(status, region) = lastNew[region][1])
    /\ [][\A region \in RegionNames :
             Field(status, region) # 0 => Field(status', region) # 0]_vars

C8_Witness ==
    /\ tick \in {"value", "sink"}
    /\ lastNew["Americas"] = <<5>>
    /\ lastNew["Europe"] = <<>>
    /\ before.americas = 1
    /\ status.americas = 5

\* C10: once a signal has arrived while the loop was parked in select!, the
\* loop does not enter the timer branch again, also when the timer becomes
\* ready before select! is evaluated.
C10_SignalWhileWaitingPreventsTick ==
    [][pc = "select" /\ sigAt = "parked" => pc' # "send"]_vars

\* C11: once a signal has arrived while a poll was in flight, the loop, back
\* in select! after that poll, does not enter the timer branch again, also
\* when the timer is ready by then.
C11_SignalInFlightStopsAfterPoll ==
    [][pc = "select" /\ sigAt = "inflight" => pc' # "send"]_vars

\* C12: with --oneshot the program begins one poll and no second one, the
\* sink stays uninitialized and is never closed, run never creates a Status
\* and none is updated, and no notification is shown, whatever the response;
\* main then returns.
C12_OneshotPollsOnceWithoutSink ==
    oneshot =>
        /\ pc \in {"main", "once_send", "once_json", "exited"}
        /\ polls = (IF pc = "main" THEN "none" ELSE "one")
        /\ inflight = (IF pc \in {"once_send", "once_json"} THEN 1 ELSE 0)
        /\ libnotify = "uninit"
        /\ ~created
        /\ status = DefaultStatus
        /\ sent = <<>>
        /\ lastNew = NoLast
        /\ pc = "exited" <=> result # "none"

C12_Witness ==
    /\ oneshot
    /\ pc = "exited"
    /\ result = "ok"
    /\ polls = "one"
    /\ logged = <<"Progress for Unknown: x/6", "Progress for Americas: 0/6">>

\* a step of the timer branch in which the sink shows a notification
Dispatch == pc = "json" /\ pc' # "json" /\ sent' # <<>>

\* C13: without --oneshot the sink goes from uninitialized to ready once and
\* from ready to closed once, and never back; it is ready whenever run is
\* executing, so before any notification, and a notification is shown only
\* while it is ready; every way out of the loop, by a signal or by an error,
\* leads to libnotify::uninit(), which closes it before main returns.
C13_SinkLifecycle ==
    /\ [](~oneshot =>
            /\ pc \in {"run", "select", "send", "json", "uninit"} =>
                   libnotify = "ready"
            /\ pc = "exited" => libnotify # "ready"
            /\ libnotify = "uninit" => sent = <<>> /\ lastNew = NoLast)
    /\ [][ /\ libnotify' # libnotify =>
                 \/ libnotify = "uninit" /\ libnotify' = "ready"
                 \/ libnotify = "ready" /\ libnotify' = "closed"
                        /\ pc = "uninit"
           /\ Dispatch => libnotify = "ready" /\ libnotify' = "ready"
           /\ (Looping \/ pc = "run") /\ pc' \notin {"run", "select", "send",
                                                      "json"}
                 => pc' = "uninit"
           /\ pc = "uninit" => pc' = "exited" /\ libnotify' = "closed" ]_vars

C13_Witness ==
    /\ ~oneshot
    /\ pc = "exited"
    /\ libnotify = "closed"
    /\ result = "err"
    /\ tick = "sink"
    /\ Len(sent) = 1

\* C14: without --oneshot, while the sink is uninitialized main is either
\* before libnotify::init or has returned its error: run is not entered, no
\* poll has begun, no Status is created and no notification is shown.
C14_InitFailureEntersNoLoop ==
    ~oneshot /\ libnotify = "uninit" =>
        /\ pc \in {"main", "exited"}
        /\ pc = "exited" => result = "err"
        /\ polls = "none"
        /\ inflight = 0
        /\ ~created
        /\ sent = <<>>
        /\ lastNew = NoLast

C14_Witness ==
    /\ ~oneshot
    /\ pc = "exited"
    /\ libnotify = "uninit"
    /\ result = "err"

\* C18: at most one poll cycle is in flight, and one is exactly while run is
\* in the timer branch; a poll begins only from select! with none in flight,
\* so a timer that is ready during a poll starts no second one; the timer
\* branch, once taken, is left only by its own end (no signal branch is
\* taken from inside it); and the Status changes only in a step of the one
\* poll in flight.
C18_OnePollAtATime ==
    /\ [](/\ inflight \in {0, 1}
          /\ inflight = 1 <=> pc \in {"send", "json", "once_send",
                                       "once_json"})
    /\ [][ /\ inflight' > inflight => inflight = 0 /\ pc \in {"select", "main"}
           /\ pc \in {"send", "json"} /\ timerReady => inflight' <= 1
           /\ pc \in {"send", "json"} /\ pc' = "uninit" =>
                 result' = "err" /\ tick' # "none"
           /\ pc = "send" => pc' \in {"send", "json", "uninit"}
           /\ pc = "json" => pc' \in {"json", "select", "uninit"}
           /\ status' # status => pc = "json" /\ inflight = 1 ]_vars

C18_Witness ==
    /\ pc = "json"
    /\ timerReady
    /\ sigint
    /\ inflight = 1
    /\ polls = "many"
    /\ status # DefaultStatus

----------------------------------------------------------------------------
(* Properties of update (SpecUpdate) and notify (SpecNotify) *)

\* the Status after the j-th call
After(j) == IF j = Len(calls) THEN status ELSE calls[j + 1].was

\* calls i < j are on the same region, with no call on it in between
Successive(i, j) ==
    /\ i < j
    /\ calls[i].region = calls[j].region
    /\ \A k \in (i + 1)..(j - 1) : calls[k].region # calls[i].region

\* C5: two successive updates of a region that held 0, with values v1 # v2
\* of 1..6 and show() succeeding: the first shows exactly one notification,
\* 0 -> v1, the second exactly one, v1 -> v2, and the region then holds v2.
C5_OneNotificationPerTransition ==
    \A i, j \in DOMAIN calls :
        ( /\ Successive(i, j)
          /\ Field(calls[i].was, calls[i].region) = 0
          /\ calls[i].new \in 1..6
          /\ calls[j].new \in 1..6
          /\ calls[i].new # calls[j].new
          /\ calls[i].showOk
          /\ calls[j].showOk )
        => /\ calls[i].err = "none"
           /\ calls[j].err = "none"
           /\ Len(calls[i].shown) = 1
           /\ calls[i].shown[1].region = calls[i].region
           /\ calls[i].shown[1].old = 0
           /\ calls[i].shown[1].new = calls[i].new
           /\ Len(calls[j].shown) = 1
           /\ calls[j].shown[1].region = calls[i].region
           /\ calls[j].shown[1].old = calls[i].new
           /\ calls[j].shown[1].new = calls[j].new
           /\ Field(After(j), calls[i].region) = calls[j].new

C5_Witness ==
    /\ Len(calls) = 2
    /\ Successive(1, 2)
    /\ calls[1].was.asia = 0
    /\ calls[1].region = "Asia"
    /\ calls[1].new = 2
    /\ calls[2].new = 6
    /\ Len(calls[1].shown) = 1
    /\ Len(calls[2].shown) = 1
    /\ status.asia = 6

\* an update with the value the region holds shows nothing, returns Ok and
\* leaves the Status as it was
SameValueIsSilent ==
    \A i \in DOMAIN calls :
        calls[i].new = Field(calls[i].was, calls[i].region) =>
            /\ calls[i].shown = <<>>
            /\ calls[i].err = "none"
            /\ After(i) = calls[i].was

C7_FailedNotifyLeavesStore ==
    \A i \in DOMAIN calls :
        ( /\ calls[i].new # Field(calls[i].was, calls[i].region)
          /\ (calls[i].new \notin 1..6 \/ ~calls[i].showOk) )
        => /\ calls[i].err # "none"
           /\ calls[i].shown = <<>>
           /\ After(i) = calls[i].was

C7_Witness ==
    /\ Len(calls) = 2
    /\ calls[1].err = "sink"
    /\ calls[2].err = "value"
    /\ calls[1].was.americas = 4
    /\ calls[1].region = "Americas"
    /\ calls[2].region = "Asia"
    /\ status = calls[1].was

\* the table of the classifier
TitleOf(v) ==
    CASE v = 1 -> "DClone is far away"
      [] v = 2 -> "DClone is nearing..."
      [] v = 3 -> "DClone is nearing..."
      [] v = 4 -> "DClone is nearing..."
      [] v = 5 -> "DClone is about to walk!"
      [] v = 6 -> "DClone is walking!"

UrgencyOf(v) ==
    CASE v = 1 -> "Low"
      [] v = 2 -> "Normal"
      [] v = 3 -> "Normal"
      [] v = 4 -> "Normal"
      [] v = 5 -> "Critical"
      [] v = 6 -> "Critical"

\* C9: notify classifies every value of 1..6 by the table, the notification
\* it shows carrying that title after the region's name and that urgency;
\* any other value is an error and nothing reaches the sink.
C9_ClassifierTable ==
    \A i \in DOMAIN calls :
        /\ calls[i].new \in 1..6 =>
              /\ calls[i].err # "value"
              /\ calls[i].showOk =>
                    /\ calls[i].err = "none"
                    /\ Len(calls[i].shown) = 1
                    /\ calls[i].shown[1].title =
                           calls[i].region \o ": " \o TitleOf(calls[i].new)
                    /\ calls[i].shown[1].urgency = UrgencyOf(calls[i].new)
        /\ calls[i].new \notin 1..6 =>
              /\ calls[i].err = "value"
              /\ calls[i].shown = <<>>

C9_Witness ==
    /\ calls # <<>>
    /\ calls[1].new = 4
    /\ calls[1].shown # <<>>
    /\ calls[1].shown[1].title = "Asia: DClone is nearing..."
    /\ calls[1].shown[1].urgency = "Normal"

----------------------------------------------------------------------------
(* More properties of update (SpecUpdate) *)

\* the last call before the j-th on the same region that showed a
\* notification, 0 if there is none
PrevShown(j) ==
    LET S == { i \in 1..(j - 1) : /\ calls[i].region = calls[j].region
                                  /\ calls[i].shown # <<>> }
    IN  IF S = {} THEN 0 ELSE CHOOSE i \in S : \A k \in S : k <= i

\* C15: an update that shows a notification shows one, with old the value
\* the region's field held when update was called and new the value passed,
\* and the field holds new afterwards.  Its body is "New status: {new}" if
\* old is 0 and "Status changed from {old} to {new}" otherwise; old is new
\* of the previous notification shown for the region where there is one,
\* and is 0 exactly when there is none and the region started at 0.  Its
\* title is the region's name, ": " and the classifier's title of new.
C15_NotificationCarriesOldAndNew ==
    \A j \in DOMAIN calls :
        calls[j].shown # <<>> =>
            \E p \in {PrevShown(j)} :
            \E n \in {calls[j].shown[1]} :
                /\ Len(calls[j].shown) = 1
                /\ n.region = calls[j].region
                /\ n.old = Field(calls[j].was, calls[j].region)
                /\ n.new = calls[j].new
                /\ Field(After(j), calls[j].region) = calls[j].new
                /\ n.old = 0 => n.body = "New status: " \o ToString(n.new)
                /\ n.old # 0 =>
                       n.body = "Status changed from " \o ToString(n.old)
                                    \o " to " \o ToString(n.new)
                /\ p # 0 => n.old = calls[p].new
                /\ n.old = 0 <=>
                       p = 0 /\ Field(calls[1].was, calls[j].region) = 0
                /\ n.title = calls[j].region \o ": " \o TitleOf(n.new)

C15_Witness ==
    /\ Len(calls) = 2
    /\ calls[1].region = "Americas"
    /\ calls[1].was.americas = 0
    /\ calls[1].new = 5
    /\ calls[1].shown # <<>>
    /\ calls[1].shown[1].body = "New status: 5"
    /\ calls[2].region = "Americas"
    /\ calls[2].new = 6
    /\ calls[2].shown # <<>>
    /\ calls[2].shown[1].body = "Status changed from 5 to 6"
    /\ calls[2].shown[1].urgency = "Critical"
    /\ calls[2].shown[1].title = "Americas: DClone is walking!"

C19_RangeCheckOnlyOnChange ==
    \A i \in DOMAIN calls :
        /\ calls[i].new = 0 =>
              /\ calls[i].shown = <<>>
              /\ After(i) = calls[i].was
              /\ Field(calls[i].was, calls[i].region) = 0 =>
                     calls[i].err = "none"
              /\ Field(calls[i].was, calls[i].region) \in 1..6 =>
                     calls[i].err = "value"
        /\ calls[i].err = "value" <=>
              /\ calls[i].new # Field(calls[i].was, calls[i].region)
              /\ calls[i].new \notin 1..6

C19_Witness ==
    /\ Len(calls) = 2
    /\ calls[1].region = "Americas"
    /\ calls[1].was.americas = 0
    /\ calls[1].new = 0
    /\ calls[1].err = "none"
    /\ calls[2].region = "Europe"
    /\ calls[2].was.europe = 1
    /\ calls[2].new = 0
    /\ calls[2].err = "value"
    /\ status = calls[1].was

----------------------------------------------------------------------------
(* More properties of the loop (Spec) *)

\* C16: a tick that ends with the error of a record (its progress is no
\* integer, notify rejects its value, or show() fails) ends at that record,
\* the one after the `done` records that ran to their end: the Status and
\* the notifications shown are those of the for loop over the records
\* before it, the record itself changes nothing and shows nothing, and the
\* records after it have no effect.
C16_FailedRecordStopsProcessing ==
    tick \in {"parse", "value", "sink"} =>
        /\ done < Len(resp)
        /\ \E r \in {ForProgress(before, SubSeq(resp, 1, done), 0)} :
              /\ r.err = "none"
              /\ r.done = done
              /\ status = r.status
              /\ sent = r.shown
              /\ \E b \in {LoopBody(r.status, resp[done + 1],
                                     tick # "sink")} :
                    /\ b.err = tick
                    /\ b.shown = <<>>
                    /\ b.status = r.status

C16_Witness ==
    /\ tick = "parse"
    /\ done = 0
    /\ resp = <<[region |-> "1", progress |-> <<"x">>],
                [region |-> "2", progress |-> <<"1">>]>>
    /\ before.europe = 5
    /\ status = before
    /\ sent = <<>>

CodeName(code) ==
    CASE code = "1" -> "Americas"
      [] code = "2" -> "Europe"
      [] code = "3" -> "Asia"

\* the records of resp the for loop reached
Reached == 1..(IF done < Len(resp) THEN done + 1 ELSE done)

\* C20: after a tick that decoded its response, a region none of whose
\* records the for loop reached holds the value it held when the tick began
\* and has no notification; and every notification shown is titled with the
\* name of the region of a reached record that reports its new value: "1"
\* Americas, "2" Europe, "3" Asia.
C20_RegionsIndependent ==
    tick \in {"ok", "parse", "value", "sink"} =>
        /\ \A code \in {"1", "2", "3"} :
              (\A i \in Reached : resp[i].region # code) =>
                  /\ Field(status, CodeName(code))
                        = Field(before, CodeName(code))
                  /\ \A k \in DOMAIN sent : sent[k].region # CodeName(code)
        /\ \A k \in DOMAIN sent :
              /\ sent[k].title = sent[k].region \o ": " \o TitleOf(sent[k].new)
              /\ \E i \in Reached :
                    /\ Known(resp[i])
                    /\ CodeName(resp[i].region) = sent[k].region
                    /\ ParseI32(resp[i].progress).val = sent[k].new

C20_Witness ==
    /\ tick = "ok"
    /\ resp = <<[region |-> "2", progress |-> <<"+", "5">>]>>
    /\ before = [americas |-> 1, europe |-> 0, asia |-> 5]
    /\ status = [americas |-> 1, europe |-> 5, asia |-> 5]
    /\ Len(sent) = 1
    /\ sent[1].title = "Europe: DClone is about to walk!"

====
